---- MODULE Spec2Model ----
(***************************************************************************)
(* Installment allocation and balance engine of Credit_Manager.            *)
(*                                                                         *)
(* Tables are sequences of rows; a row's ID is its position (the storage   *)
(* assigns increasing identifiers and read_table sorts by identifier).     *)
(* Money is an integer count of millionths (10^-6), the resolution that    *)
(* balance() rounds to.  Dates are encoded month * 31 + day, which keeps   *)
(* the calendar order.                                                     *)
(***************************************************************************)
EXTENDS Integers, Sequences, FiniteSets, TLC

VARIABLES credits, installments, collections, res, proc

vars == <<credits, installments, collections, res, proc>>
tables == <<credits, installments, collections>>

(***************************************************************************)
(* Bounds of the model.                                                    *)
(***************************************************************************)
MaxCredits == 2
MaxColl == 1
MaxPenalties == 1
MaxDatedColl == 6
MaxGenRows == 3
MaxScope == 3
MaxTerm == 4

(***************************************************************************)
(* Program constants.                                                      *)
(***************************************************************************)
common_id == 1
advance_id == 2
bonus_id == 3
penalty_id == 4
round_id == 5
DustLimit == 100000

(***************************************************************************)
(* Dates.                                                                  *)
(***************************************************************************)
Enc(m, d) == m * 31 + d
MonthOf(date) == (date - 1) \div 31
Today == Enc(1, 10)

(***************************************************************************)
(* Arithmetic helpers.                                                     *)
(***************************************************************************)
Abs(x) == IF x < 0 THEN -x ELSE x

\* Body at the value v (a local variable of the code, assigned once)
With(v, Body(_)) == Body(v)

\* a frame given row by row, as the sequence of its rows
Rows(f) == f \o <<>>

RECURSIVE Iota(_, _)
Iota(a, b) == IF a > b THEN <<>> ELSE <<a>> \o Iota(a + 1, b)

\* n / d rounded to the nearest integer (d > 0), halves away from zero.
RoundDiv(n, d) ==
    IF n >= 0 THEN (n + d \div 2) \div d
    ELSE -(((-n) + d \div 2) \div d)

\* x / 1.21
Div121(x) == RoundDiv(x * 100, 121)

\* round(x, 6) of an amount held in millionths
Round6(x) == RoundDiv(x, 1)

RECURSIVE SumSeq(_, _)
SumSeq(s, f) ==
    IF s = <<>> THEN 0
    ELSE s[1][f] + SumSeq(Tail(s), f)

MONEY_COLS == {"Capital", "Interest", "IVA", "Total"}

(***************************************************************************)
(* Catalogs and external collaborators (never written by the engine).      *)
(***************************************************************************)
\* credit_types: ID -> Name, in the order create.py writes CREDIT_TYPES
df_crtp == <<"FRANCES", "ALEMAN", "PENALTY">>

CreditTypeID(name) == CHOOSE k \in 1..Len(df_crtp) : df_crtp[k] = name

\* clients: ID -> CUIL
df_clts == <<[CUIL |-> 201], [CUIL |-> 202]>>

search_client_id(cuil) == CHOOSE k \in 1..Len(df_clts) : df_clts[k].CUIL = cuil

search_organism_id(organism) == 1

(***************************************************************************)
(* Schedule generator.                                                     *)
(* TNA_C_IVA is held in units of 365/30 percent, so that the periodic rate  *)
(* tna / 365 * 30 of the code is TNA_C_IVA / 100.                          *)
(***************************************************************************)
DueDateOf(first_due_date, i) == Enc(MonthOf(first_due_date) + (i - 1), 28)

RECURSIVE Pow(_, _)
Pow(b, n) == IF n = 0 THEN 1 ELSE b * Pow(b, n - 1)

\* numpy_financial.pmt(rate, nper, pv = -cap)
pmt(tna, term, cap) ==
    IF tna = 0 THEN RoundDiv(cap, term)
    ELSE RoundDiv(RoundDiv(cap * tna, 100) * Pow(100 + tna, term),
                  Pow(100 + tna, term) - Pow(100, term))

RECURSIVE OutstandingBefore(_, _, _, _)
\* principal outstanding at the start of period per
OutstandingBefore(tna, per, term, cap) ==
    IF per = 1 THEN cap
    ELSE LET b == OutstandingBefore(tna, per - 1, term, cap)
         IN  b - (pmt(tna, term, cap) - RoundDiv(b * tna, 100))

\* numpy_financial.ipmt and ppmt
ipmt(tna, per, term, cap) == RoundDiv(OutstandingBefore(tna, per, term, cap) * tna, 100)

ppmt(tna, per, term, cap) == pmt(tna, term, cap) - ipmt(tna, per, term, cap)

inst_french(Credit_ID, cap, tna, term, i, first_due_date) ==
    LET inst_value == pmt(tna, term, cap)
        inst_cap == ppmt(tna, i, term, cap)
        inst_int == Div121(ipmt(tna, i, term, cap))
    IN  [Credit_ID |-> Credit_ID, Inst_Num |-> i,
         Due_Date |-> DueDateOf(first_due_date, i),
         Capital |-> inst_cap, Interest |-> inst_int,
         IVA |-> inst_value - (inst_cap + inst_int), Total |-> inst_value]

\* an inst_german whose Total leaves the IVA out
inst_german_without_iva(Credit_ID, cap, tna, term, i, first_due_date) ==
    LET inst_cap == RoundDiv(cap, term)
        inst_int == RoundDiv((cap - inst_cap * (i - 1)) * tna, 121)
        inst_iva == RoundDiv(inst_int * 21, 100)
    IN  [Credit_ID |-> Credit_ID, Inst_Num |-> i,
         Due_Date |-> DueDateOf(first_due_date, i),
         Capital |-> inst_cap, Interest |-> inst_int, IVA |-> inst_iva,
         Total |-> inst_cap + inst_int]

inst_german(Credit_ID, cap, tna, term, i, first_due_date) ==
    LET inst_cap == RoundDiv(cap, term)
        inst_int == RoundDiv((cap - inst_cap * (i - 1)) * tna, 121)
        inst_iva == RoundDiv(inst_int * 21, 100)
    IN  [Credit_ID |-> Credit_ID, Inst_Num |-> i,
         Due_Date |-> DueDateOf(first_due_date, i),
         Capital |-> inst_cap, Interest |-> inst_int, IVA |-> inst_iva,
         Total |-> inst_cap + inst_int + inst_iva]

inst_penalty(Credit_ID, cap, i, first_due_date) ==
    LET inst_int == Div121(cap)
    IN  [Credit_ID |-> Credit_ID, Inst_Num |-> i,
         Due_Date |-> DueDateOf(first_due_date, i),
         Capital |-> 0, Interest |-> inst_int, IVA |-> cap - inst_int,
         Total |-> cap]

\* The row Installment.__init__ computes for installment i of a stored credit.
InstallmentRow(creds, Credit_ID, i) ==
    LET data == creds[Credit_ID]
        name == df_crtp[data.Credit_Type_ID]
    IN  CASE name = "FRANCES" ->
               inst_french(Credit_ID, data.Capital, data.TNA_C_IVA, data.Term, i, data.First_Due_Date)
          [] name = "ALEMAN" ->
               inst_german(Credit_ID, data.Capital, data.TNA_C_IVA, data.Term, i, data.First_Due_Date)
          [] name = "PENALTY" ->
               inst_penalty(Credit_ID, data.Capital, i, data.First_Due_Date)

\* IDs of the stored rows of the pair (Credit_ID, i)
ExistingIDs(insts, Credit_ID, i) ==
    {k \in 1..Len(insts) : insts[k].Credit_ID = Credit_ID /\ insts[k].Inst_Num = i}

\* an existence test that never finds the pair
InstallmentNeverFound(insts, Credit_ID, i) == FALSE

\* The existence test of Installment.__init__ on the table it has read.
InstallmentExists(insts, Credit_ID, i) ==
    /\ \E k \in 1..Len(insts) : insts[k].Credit_ID = Credit_ID
    /\ \E k \in 1..Len(insts) : insts[k].Credit_ID = Credit_ID /\ insts[k].Inst_Num = i

\* a write that is refused once the table holds rows
write_first(table, rows) == IF table = <<>> THEN rows ELSE table

\* a write that replaces the table by the new rows
write_replacing(table, rows) == rows

\* write_table: rows are appended, nothing stored is touched.
write_table(table, rows) == table \o rows

\* Installment.__init__ run to completion: the table afterwards, the ID it
\* ends with, and whether it raised.
\* an Installment.__init__ that resolves several matching rows to the first
InstallmentInitFirstMatch(insts, creds, Credit_ID, i) ==
    IF InstallmentExists(insts, Credit_ID, i)
    THEN [err |-> FALSE, installments |-> insts,
          ID |-> CHOOSE k \in ExistingIDs(insts, Credit_ID, i) :
                    \A j \in ExistingIDs(insts, Credit_ID, i) : k <= j]
    ELSE [err |-> FALSE, ID |-> Len(insts) + 1,
          installments |-> write_table(insts, <<InstallmentRow(creds, Credit_ID, i)>>)]

InstallmentInit(insts, creds, Credit_ID, i) ==
    LET row == InstallmentRow(creds, Credit_ID, i)
        found == ExistingIDs(insts, Credit_ID, i)
    IN  IF InstallmentExists(insts, Credit_ID, i)
        THEN IF Cardinality(found) # 1
             THEN [err |-> TRUE, installments |-> insts, ID |-> 0]
             ELSE [err |-> FALSE, installments |-> insts,
                   ID |-> CHOOSE k \in found : TRUE]
        ELSE LET written == write_table(insts, <<row>>)
             IN  [err |-> FALSE, installments |-> written, ID |-> Len(written)]

RECURSIVE GenerateSchedule(_, _, _, _)
\* Credit.__init__, lines 91-93: Installment(ID, i) for i = from..Term
GenerateSchedule(insts, creds, Credit_ID, from) ==
    IF from > creds[Credit_ID].Term THEN insts
    ELSE GenerateSchedule(InstallmentInit(insts, creds, Credit_ID, from).installments,
                          creds, Credit_ID, from + 1)

\* the credit row Credit.__init__ writes
CreditRow(Due_Date, Capital_Requested, Capital, Credit_Type, Client, Organism, Term, TNA_C_IVA, Emission_Date) ==
    [Disbursement_Date |-> Emission_Date, First_Due_Date |-> Due_Date,
     Capital_Requested |-> Capital_Requested, Capital |-> Capital,
     Credit_Type_ID |-> CreditTypeID(Credit_Type),
     TNA_C_IVA |-> TNA_C_IVA, Term |-> Term,
     Client_ID |-> search_client_id(Client),
     Organism_ID |-> search_organism_id(Organism)]

\* the name is in the credit_types catalog (df_credit_types.at raises
\* KeyError when it is not)
KnownCreditType(Credit_Type) == \E k \in 1..Len(df_crtp) : df_crtp[k] = Credit_Type

\* a Credit.__init__ that writes the credit row before it looks the type up
CreditInitWritingFirst(creds, insts, Due_Date, Capital_Requested, Capital, Credit_Type, Client, Organism, Term, TNA_C_IVA, Emission_Date) ==
    IF KnownCreditType(Credit_Type)
    THEN With(write_table(creds, <<CreditRow(Due_Date, Capital_Requested, Capital, Credit_Type, Client, Organism, Term, TNA_C_IVA, Emission_Date)>>), LAMBDA written :
        [err |-> FALSE, credits |-> written,
         installments |-> GenerateSchedule(insts, written, Len(written), 1),
         ID |-> Len(written)])
    ELSE [err |-> TRUE, installments |-> insts, ID |-> 0,
          credits |-> write_table(creds, <<[CreditRow(Due_Date, Capital_Requested, Capital, "FRANCES", Client, Organism, Term, TNA_C_IVA, Emission_Date) EXCEPT !.Credit_Type_ID = 0]>>)]

\* Credit.__init__ with Origin_ID = None: the type is looked up (line 58),
\* the credit row is appended, its schedule is generated; result: whether it
\* raised, both tables and the new credit's ID.
CreditInit(creds, insts, Due_Date, Capital_Requested, Capital, Credit_Type, Client, Organism, Term, TNA_C_IVA, Emission_Date) ==
    IF ~KnownCreditType(Credit_Type)
    THEN [err |-> TRUE, credits |-> creds, installments |-> insts, ID |-> 0]
    ELSE
    With(write_table(creds, <<CreditRow(Due_Date, Capital_Requested, Capital, Credit_Type, Client, Organism, Term, TNA_C_IVA, Emission_Date)>>), LAMBDA written :
        [err |-> FALSE, credits |-> written,
         installments |-> GenerateSchedule(insts, written, Len(written), 1),
         ID |-> Len(written)])

(***************************************************************************)
(* Balance engine.  The snapshot is a sequence of rows in ID order; the    *)
(* columns Owner_ID and Settlement_Date, which no computation reads, are   *)
(* left out of the rows.                                                   *)
(***************************************************************************)
\* a cutoff that leaves out the collections dated D
CollectionsBefore(colls, date) == SelectSeq(colls, LAMBDA r : r.Date < date)

\* df_coll.loc[df_coll["Date"] <= date]
CollectionsUpTo(colls, date) == SelectSeq(colls, LAMBDA r : r.Date <= date)

\* groupby("Installment_ID")[col].sum() at one installment; 0 when absent
CollectedSum(df_coll, id, col) ==
    SumSeq(SelectSeq(df_coll, LAMBDA r : r.Installment_ID = id), col)

\* installments of credits disbursed on or before date (left merge: a row
\* whose credit is not stored has no disbursement date and is dropped)
EligibleIDs(creds, insts, date) ==
    SelectSeq(Iota(1, Len(insts)),
              LAMBDA k : /\ insts[k].Credit_ID \in 1..Len(creds)
                         /\ creds[insts[k].Credit_ID].Disbursement_Date <= date)

\* one row of the snapshot: scheduled minus collected, rounded to 6 decimals
BalanceRow(insts, df_coll, k) ==
    [ID |-> k, Credit_ID |-> insts[k].Credit_ID,
     Inst_Num |-> insts[k].Inst_Num, Due_Date |-> insts[k].Due_Date,
     Capital |-> Round6(insts[k].Capital - CollectedSum(df_coll, k, "Capital")),
     Interest |-> Round6(insts[k].Interest - CollectedSum(df_coll, k, "Interest")),
     IVA |-> Round6(insts[k].IVA - CollectedSum(df_coll, k, "IVA")),
     Total |-> Round6(insts[k].Total - CollectedSum(df_coll, k, "Total"))]

balance(creds, insts, colls, date) ==
    With(EligibleIDs(creds, insts, date), LAMBDA ids :
    With(CollectionsUpTo(colls, date), LAMBDA df_coll :
        Rows([n \in 1..Len(ids) |-> BalanceRow(insts, df_coll, ids[n])])))

(***************************************************************************)
(* Waterfall splitter and partial allocator.                               *)
(***************************************************************************)
RECURSIVE InsertByDueDate(_, _)
InsertByDueDate(sorted, r) ==
    IF sorted = <<>> THEN <<r>>
    ELSE IF r.Due_Date < Head(sorted).Due_Date THEN <<r>> \o sorted
    ELSE <<Head(sorted)>> \o InsertByDueDate(Tail(sorted), r)

RECURSIVE SortByDueDate(_)
\* df.sort_values(by=["Due_Date"]); rows of equal due date keep their order
SortByDueDate(df) ==
    IF df = <<>> THEN <<>>
    ELSE InsertByDueDate(SortByDueDate(SubSeq(df, 1, Len(df) - 1)), df[Len(df)])

\* df["Total"].cumsum() at position n
CumTotal(df, n) == SumSeq(SubSeq(df, 1, n), "Total")

RECURSIVE Pick(_, _, _, _)
\* df.loc[df["Cum_Total"] <= amount] (up) and df.loc[df["Cum_Total"] > amount]
\* (~up), from row n on
Pick(df, amount, up, n) ==
    IF n > Len(df) THEN <<>>
    ELSE (IF (CumTotal(df, n) <= amount) = up THEN <<df[n]>> ELSE <<>>)
         \o Pick(df, amount, up, n + 1)

Tag(r, type_id) ==
    [ID |-> r.ID, Credit_ID |-> r.Credit_ID, Inst_Num |-> r.Inst_Num,
     Due_Date |-> r.Due_Date, Capital |-> r.Capital, Interest |-> r.Interest,
     IVA |-> r.IVA, Total |-> r.Total, Type_ID |-> type_id]

\* df["Type_ID"] = type_id
TagAll(df, type_id) == Rows([n \in 1..Len(df) |-> Tag(df[n], type_id)])

\* a split that takes the rows in the order given
split_unsorted(df, amount, type_id) ==
    With(df, LAMBDA sorted :
    With(TagAll(Pick(sorted, amount, TRUE, 1), type_id), LAMBDA df_up :
        [df_up |-> df_up,
         df_down |-> Pick(sorted, amount, FALSE, 1),
         surplus |-> amount - SumSeq(df_up, "Total")]))

split(df, amount, type_id) ==
    With(SortByDueDate(df), LAMBDA sorted :
    With(TagAll(Pick(sorted, amount, TRUE, 1), type_id), LAMBDA df_up :
        [df_up |-> df_up,
         df_down |-> Pick(sorted, amount, FALSE, 1),
         surplus |-> amount - SumSeq(df_up, "Total")]))

\* the partially paid row: capital first, the rest split into interest and IVA
PartialRow(r, surplus) ==
    IF r.Capital > surplus
    THEN [r EXCEPT !.Capital = surplus, !.Interest = 0, !.IVA = 0, !.Total = surplus]
    ELSE [r EXCEPT !.Interest = Div121(surplus - r.Capital),
                   !.IVA = surplus - (r.Capital + Div121(surplus - r.Capital)),
                   !.Total = surplus]

\* a first_inst that takes the last pending installment
first_inst_last(df_down, surplus, type_id) ==
    IF df_down = <<>> \/ surplus = 0 THEN <<>>
    ELSE SelectSeq(<<PartialRow(Tag(df_down[Len(df_down)], type_id), surplus)>>,
                   LAMBDA x : x.Total # 0)

first_inst(df_down, surplus, type_id) ==
    IF df_down = <<>> \/ surplus = 0 THEN <<>>
    ELSE SelectSeq(<<PartialRow(Tag(df_down[1], type_id), surplus)>>,
                   LAMBDA x : x.Total # 0)

(***************************************************************************)
(* Formatting and persistence of collection rows.                          *)
(***************************************************************************)
\* basic_formatting: the canonical columns, with the payment date
basic_formatting(df, date) ==
    Rows([n \in 1..Len(df) |->
        [Installment_ID |-> df[n].ID, Date |-> date, Type_ID |-> df[n].Type_ID,
         Capital |-> df[n].Capital, Interest |-> df[n].Interest,
         IVA |-> df[n].IVA, Total |-> df[n].Total]])

\* round_balance(date, save = True): the rounding rows it builds
round_rows(creds, insts, colls, date) ==
    basic_formatting(TagAll(SelectSeq(balance(creds, insts, colls, date),
                                      LAMBDA r : Abs(r.Total) # 0 /\ r.Total < DustLimit),
                            round_id), date)

round_balance(creds, insts, colls, date) ==
    write_table(colls, round_rows(creds, insts, colls, date))

\* a _save that ignores the persistence flag
save_always(creds, insts, colls, df, date, save) ==
    round_balance(creds, insts, write_table(colls, df), date)

\* _save: the collections table afterwards
_save(creds, insts, colls, df, date, save) ==
    IF save
    THEN round_balance(creds, insts, write_table(colls, df), date)
    ELSE colls

(***************************************************************************)
(* Penalty synthesis.                                                      *)
(***************************************************************************)
\* what a step that may create a credit leaves: whether it raised, the two
\* tables it may have written, and the rows it hands on
Made(err, creds, insts, rows) ==
    [err |-> err, credits |-> creds, installments |-> insts, rows |-> rows]

\* the penalty installment as a frame row carrying the largest stored ID
PenaltyRow(r, ID) ==
    [ID |-> ID, Credit_ID |-> r.Credit_ID, Inst_Num |-> r.Inst_Num,
     Due_Date |-> r.Due_Date, Capital |-> r.Capital, Interest |-> r.Interest,
     IVA |-> r.IVA, Total |-> r.Total, Type_ID |-> penalty_id]

\* new_penalty.Installments with ID = df_inst.index.max() and Type_ID
PenaltyRows(made) ==
    With(SelectSeq(made.installments, LAMBDA r : r.Credit_ID = made.ID), LAMBDA own :
        Rows([n \in 1..Len(own) |-> PenaltyRow(own[n], Len(made.installments))]))

\* penalty.new: a PENALTY credit of one installment for the same client and
\* organism
penalty_new(creds, insts, credit, amount, date) ==
    IF credit \notin 1..Len(creds)
    THEN Made(TRUE, creds, insts, <<>>)
    ELSE With(CreditInit(creds, insts, date, 0, amount, "PENALTY", df_clts[creds[credit].Client_ID].CUIL, creds[credit].Organism_ID, 1, 0, date), LAMBDA made :
              Made(FALSE, made.credits, made.installments, PenaltyRows(made)))

(***************************************************************************)
(* Credit-level collection.  Each operator is the handler run to           *)
(* completion: the three tables afterwards, whether it raised, and the     *)
(* rows it returns.                                                        *)
(***************************************************************************)
Outcome(err, creds, insts, colls, rows) ==
    [err |-> err, credits |-> creds, installments |-> insts,
     collections |-> colls, rows |-> rows]

\* collections/common.py credit() up to basic_formatting: the rows to format,
\* or the frame without a Type_ID column that basic_formatting cannot index
\* (KeyError)
common_rows(creds, insts, colls, credit_id, amount, date, save) ==
    With(split(SelectSeq(balance(creds, insts, colls, date),
                         LAMBDA r : r.Credit_ID = credit_id /\ r.Total > 0),
               amount, common_id), LAMBDA sp :
        IF sp.surplus > 0
        THEN IF sp.df_down # <<>>
             THEN Made(FALSE, creds, insts,
                       sp.df_up \o first_inst(sp.df_down, sp.surplus, common_id))
             ELSE IF save
             THEN With(penalty_new(creds, insts, credit_id, amount, Today), LAMBDA new_penalty :
                       Made(new_penalty.err, new_penalty.credits, new_penalty.installments,
                            sp.df_up \o new_penalty.rows))
             ELSE Made(TRUE, creds, insts, <<>>)
        ELSE Made(FALSE, creds, insts, sp.df_up))

\* the same with the rows formatted: all of credit() before _save
common_prepared(creds, insts, colls, credit_id, amount, date, save) ==
    With(common_rows(creds, insts, colls, credit_id, amount, date, save), LAMBDA c :
        Made(c.err, c.credits, c.installments, basic_formatting(c.rows, date)))

\* _save and the returned frame, after the rows are prepared
Finish(c, colls, date, save) ==
    IF c.err
    THEN Outcome(TRUE, c.credits, c.installments, colls, <<>>)
    ELSE Outcome(FALSE, c.credits, c.installments,
                 _save(c.credits, c.installments, colls, c.rows, date, save), c.rows)

common_credit(creds, insts, colls, credit_id, amount, date, save) ==
    Finish(common_prepared(creds, insts, colls, credit_id, amount, date, save),
           colls, date, save)

\* the bonus row of an original row o whose advance row is coll
BonusRow(o, coll, date) ==
    [Installment_ID |-> o.ID, Date |-> date, Type_ID |-> bonus_id,
     Capital |-> o.Capital - coll.Capital, Interest |-> o.Interest - coll.Interest,
     IVA |-> o.IVA,
     Total |-> (o.Capital - coll.Capital) + (o.Interest - coll.Interest) + o.IVA]

\* the advance row of installment id in the formatted result
AdvanceOf(df_result, id) ==
    CHOOSE r \in {df_result[n] : n \in 1..Len(df_result)} :
        r.Type_ID = advance_id /\ r.Installment_ID = id

\* collections/advance.py build_bonus_rows(): the inner merge keeps the
\* original rows that have an advance row, in the original order
build_bonus_rows(df_original, df_result, date) ==
    With(SelectSeq(df_original, LAMBDA o : \E n \in 1..Len(df_result) :
                       /\ df_result[n].Type_ID = advance_id
                       /\ df_result[n].Installment_ID = o.ID), LAMBDA matched :
        SelectSeq(Rows([n \in 1..Len(matched) |->
                          BonusRow(matched[n], AdvanceOf(df_result, matched[n].ID), date)]),
                  LAMBDA r : r.Capital = 0 /\ r.Interest # 0))

\* an adjustment that only recomputes Total
Unadjusted(r, date, inclusive) ==
    [r EXCEPT !.Total = r.Capital + r.Interest + r.IVA]

\* the advance adjustment: no Interest and IVA on the rows not yet due
\* (Due_Date >= date at credit level, Due_Date > date at payer level)
Adjusted(r, date, inclusive) ==
    IF r.Due_Date > date \/ (inclusive /\ r.Due_Date = date)
    THEN [r EXCEPT !.Interest = 0, !.IVA = 0, !.Total = r.Capital]
    ELSE [r EXCEPT !.Total = r.Capital + r.Interest + r.IVA]

ZeroFuture(df, date, inclusive) ==
    Rows([n \in 1..Len(df) |-> Adjusted(df[n], date, inclusive)])

\* collections/advance.py credit(), lines 180-196: the rows to format
advance_rows(creds, insts, sp, credit_id, date, save) ==
    IF sp.surplus > 0 /\ sp.df_down = <<>> /\ save
    THEN With(penalty_new(creds, insts, credit_id, sp.surplus, date), LAMBDA new_penalty :
              Made(new_penalty.err, new_penalty.credits, new_penalty.installments,
                   sp.df_up \o new_penalty.rows))
    ELSE IF sp.surplus > 0 /\ sp.df_down # <<>>
    THEN Made(FALSE, creds, insts, sp.df_up \o first_inst(sp.df_down, sp.surplus, advance_id))
    ELSE Made(FALSE, creds, insts, sp.df_up)

\* collections/advance.py credit() before _save: the formatted rows and the
\* bonus rows
advance_prepared(creds, insts, colls, credit_id, amount, date, save) ==
    With(SelectSeq(balance(creds, insts, colls, date),
                   LAMBDA r : r.Credit_ID = credit_id), LAMBDA df_int :
    With(advance_rows(creds, insts, split(ZeroFuture(df_int, date, TRUE), amount, advance_id),
                      credit_id, date, save), LAMBDA c :
    With(basic_formatting(c.rows, date), LAMBDA df :
        Made(c.err, c.credits, c.installments,
             df \o build_bonus_rows(df_int, df, date)))))

\* collections/advance.py credit()
advance_credit(creds, insts, colls, credit_id, amount, date, save) ==
    Finish(advance_prepared(creds, insts, colls, credit_id, amount, date, save),
           colls, date, save)

(***************************************************************************)
(* Payer-level collection (collections/documents.py).                      *)
(***************************************************************************)
\* the order of sort_values(by=["Due_Date", "Emission_Date", "Credit_ID"])
Before(x, y, creds) ==
    \/ x.Due_Date < y.Due_Date
    \/ /\ x.Due_Date = y.Due_Date
       /\ creds[x.Credit_ID].Disbursement_Date < creds[y.Credit_ID].Disbursement_Date
    \/ /\ x.Due_Date = y.Due_Date
       /\ creds[x.Credit_ID].Disbursement_Date = creds[y.Credit_ID].Disbursement_Date
       /\ x.Credit_ID < y.Credit_ID

RECURSIVE InsertByKeys(_, _, _)
InsertByKeys(sorted, r, creds) ==
    IF sorted = <<>> THEN <<r>>
    ELSE IF Before(r, Head(sorted), creds) THEN <<r>> \o sorted
    ELSE <<Head(sorted)>> \o InsertByKeys(Tail(sorted), r, creds)

RECURSIVE SortByKeys(_, _)
SortByKeys(df, creds) ==
    IF df = <<>> THEN <<>>
    ELSE InsertByKeys(SortByKeys(SubSeq(df, 1, Len(df) - 1), creds), df[Len(df)], creds)

\* the payer's credits disbursed on or before date
EligibleCredits(creds, client_id, date) ==
    {c \in 1..Len(creds) : creds[c].Client_ID = client_id /\ creds[c].Disbursement_Date <= date}

\* the balance rows of all eligible credits of the payer, in allocation order
get_client_balance_by_document(creds, insts, colls, doc, date) ==
    With(EligibleCredits(creds, search_client_id(doc), date), LAMBDA credits_id :
        SortByKeys(SelectSeq(balance(creds, insts, colls, date),
                             LAMBDA r : r.Credit_ID \in credits_id), creds))

\* the credit-level handler chosen by the collection type, before _save
prepared(collection_type, creds, insts, colls, credit_id, amount, date, save) ==
    IF collection_type = "COMUN"
    THEN common_prepared(creds, insts, colls, credit_id, amount, date, save)
    ELSE advance_prepared(creds, insts, colls, credit_id, amount, date, save)

\* the credit-level handler chosen by the collection type
collection(collection_type, creds, insts, colls, credit_id, amount, date, save) ==
    IF collection_type = "COMUN"
    THEN common_credit(creds, insts, colls, credit_id, amount, date, save)
    ELSE advance_credit(creds, insts, colls, credit_id, amount, date, save)

RECURSIVE Ascending(_)
Ascending(S) ==
    IF S = {} THEN <<>>
    ELSE With(CHOOSE x \in S : \A y \in S : x <= y, LAMBDA m : <<m>> \o Ascending(S \ {m}))

\* df.groupby("Credit_ID")[["Total"]].sum(): the credits present, ascending,
\* and the sum at one of them
GroupIDs(df) == Ascending({df[n].Credit_ID : n \in 1..Len(df)})

GroupTotal(df, c) == SumSeq(SelectSeq(df, LAMBDA r : r.Credit_ID = c), "Total")

\* NoCredit stands for the NaN that df.index.max() gives on an empty frame
NoCredit == 0

\* split() sorts the frame again by Due_Date alone with the default
\* sort_values, which is not stable: rows of equal Due_Date come out in the
\* order they had (kept) or in another one, here the opposite order.  The
\* sort of split is stable on the frame this returns.
TiesAs(df, kept) ==
    IF kept THEN df ELSE Rows([n \in 1..Len(df) |-> df[Len(df) + 1 - n]])

\* the frame document() splits: the advance adjustment zeroes what is not due
PayerFrame(df, collection_type, date, kept) ==
    TiesAs(IF collection_type = "ANTICIPADA" THEN ZeroFuture(df, date, FALSE) ELSE df, kept)

\* concat of df_up and next_inst
Allocation(df, amount, type_id) ==
    With(split(df, amount, type_id), LAMBDA sp :
        sp.df_up \o first_inst(sp.df_down, sp.surplus, type_id))

\* a document() that hands the surplus to the first credit of the allocation
CallsToFirst(alloc, ids, surplus) ==
    Rows([n \in 1..Len(ids) |-> <<ids[n], GroupTotal(alloc, ids[n])>>])
    \o (IF surplus > 0
        THEN << <<IF ids = <<>> THEN NoCredit ELSE ids[1], surplus>> >>
        ELSE <<>>)

\* the calls document() makes: one per credit of the allocation with the sum
\* allocated to it, then one with the surplus for the largest credit ID
Calls(alloc, ids, surplus) ==
    Rows([n \in 1..Len(ids) |-> <<ids[n], GroupTotal(alloc, ids[n])>>])
    \o (IF surplus > 0
        THEN << <<IF ids = <<>> THEN NoCredit ELSE ids[Len(ids)], surplus>> >>
        ELSE <<>>)

RECURSIVE Dispatch(_, _, _, _, _, _)
\* the calls of the handler, one after the other; a call that raises ends the
\* operation with the tables as the earlier calls left them
Dispatch(collection_type, state, calls, date, save, n) ==
    IF state.err \/ n > Len(calls) THEN state
    ELSE With(collection(collection_type, state.credits, state.installments,
                         state.collections, calls[n][1], calls[n][2], date, save), LAMBDA o :
              Dispatch(collection_type,
                       Outcome(o.err, o.credits, o.installments, o.collections,
                               state.rows \o o.rows),
                       calls, date, save, n + 1))

\* concat(dfs) and the final filter; concat of no frame raises
Returned(done, calls) ==
    IF calls = <<>> \/ done.err
    THEN Outcome(TRUE, done.credits, done.installments, done.collections, <<>>)
    ELSE Outcome(FALSE, done.credits, done.installments, done.collections,
                 SelectSeq(done.rows, LAMBDA r : r.Total # 0))

\* a document() that handles every other tag as the advance type
document_any_tag(creds, insts, colls, doc, collection_type, amount, date, save, kept) ==
    With(Allocation(PayerFrame(get_client_balance_by_document(creds, insts, colls, doc, date),
                               collection_type, date, kept),
                    amount, IF collection_type = "COMUN" THEN common_id ELSE advance_id), LAMBDA alloc :
    With(Calls(alloc, GroupIDs(alloc), amount - SumSeq(alloc, "Total")), LAMBDA calls :
        Returned(Dispatch(collection_type, Outcome(FALSE, creds, insts, colls, <<>>),
                          calls, date, save, 1), calls)))

document(creds, insts, colls, doc, collection_type, amount, date, save, kept) ==
    IF collection_type \notin {"COMUN", "ANTICIPADA"}
    THEN Outcome(TRUE, creds, insts, colls, <<>>)
    ELSE
    With(Allocation(PayerFrame(get_client_balance_by_document(creds, insts, colls, doc, date),
                               collection_type, date, kept),
                    amount, IF collection_type = "COMUN" THEN common_id ELSE advance_id), LAMBDA alloc :
    With(Calls(alloc, GroupIDs(alloc), amount - SumSeq(alloc, "Total")), LAMBDA calls :
        Returned(Dispatch(collection_type, Outcome(FALSE, creds, insts, colls, <<>>),
                          calls, date, save, 1), calls)))

(***************************************************************************)
(* The state machine.  An operation is one call run to completion; res      *)
(* holds what the call returned until the caller takes it.                 *)
(***************************************************************************)
\* the credits requested: amortization method and payer
CreditRequests == {<<"ALEMAN", 201>>, <<"FRANCES", 202>>, <<"AMERICANO", 201>>}
CollectionTypes == {"COMUN", "ANTICIPADA"}
\* the tags a payer-level caller may pass: the two handled and one that is not
PayerTags == CollectionTypes \cup {"BONIFICACION"}
Terms == {2}
Capitals == {1000000}
Rates == {10}
Cuils == {df_clts[k].CUIL : k \in 1..Len(df_clts)}
FirstDue == Enc(1, 28)
EmissionDates == {Enc(0, 5)}
PayDates == {Enc(1, 28), Enc(2, 15)}
BalanceDates == PayDates \cup {Enc(0, 1), Today}
Amounts == {550000, 600000, 1200000}
\* a payer's payment may exceed what two credits owe
PayerAmounts == Amounts \cup {2400000}
Indexes == 1..2

Idle == [op |-> "none"]

Init ==
    /\ credits = <<>>
    /\ installments = <<>>
    /\ collections = <<>>
    /\ res = Idle
    /\ proc = <<>>

\* the bounds of the model on what an operation may leave stored
Within(o) ==
    /\ Len(o.credits) <= MaxCredits + MaxPenalties
    /\ Len(collections) <= MaxColl

Commit(o) ==
    /\ credits' = o.credits
    /\ installments' = o.installments
    /\ collections' = o.collections

NewCredit(Credit_Type, Term, Client, Emission_Date, cap, tna) ==
    /\ res = Idle
    /\ Len(credits) < MaxCredits
    /\ \E made \in {CreditInit(credits, installments, FirstDue, cap, cap, Credit_Type, Client, "MI", Term, tna, Emission_Date)} :
           /\ credits' = made.credits
           /\ installments' = made.installments
           /\ res' = [op |-> "Credit", err |-> made.err, ID |-> made.ID,
                      Credit_Type |-> Credit_Type]
    /\ UNCHANGED <<collections, proc>>

NewInstallment(Credit_ID, i) ==
    /\ res = Idle
    /\ \E made \in {InstallmentInit(installments, credits, Credit_ID, i)} :
           /\ installments' = made.installments
           /\ res' = [op |-> "Installment", err |-> made.err, ID |-> made.ID,
                      Credit_ID |-> Credit_ID, i |-> i]
    /\ UNCHANGED <<credits, collections, proc>>

Balance(date) ==
    /\ res = Idle
    /\ res' = [op |-> "balance", err |-> FALSE, date |-> date,
               rows |-> balance(credits, installments, collections, date)]
    /\ UNCHANGED <<tables, proc>>

Collect(collection_type, credit_id, amount, date, save) ==
    /\ res = Idle
    /\ \E o \in {collection(collection_type, credits, installments, collections, credit_id, amount, date, save)} :
           /\ Within(o)
           /\ Commit(o)
           /\ res' = [op |-> "collect", err |-> o.err, rows |-> o.rows,
                      collection_type |-> collection_type, credit_id |-> credit_id,
                      amount |-> amount, date |-> date, save |-> save]
    /\ UNCHANGED proc

CollectForPayer(doc, collection_type, amount, date, save) ==
    /\ res = Idle
    /\ \E o \in {document(credits, installments, collections, doc, collection_type, amount, date,
                          save, kept) : kept \in BOOLEAN} :
           /\ Within(o)
           /\ Commit(o)
           /\ res' = [op |-> "collectForPayer", err |-> o.err, rows |-> o.rows,
                      collection_type |-> collection_type, doc |-> doc,
                      amount |-> amount, date |-> date, save |-> save]
    /\ UNCHANGED proc

\* the caller takes the result
TakeResult ==
    /\ res # Idle
    /\ res' = Idle
    /\ UNCHANGED <<tables, proc>>

Next ==
    \/ \E q \in CreditRequests, n \in Terms, e \in EmissionDates, cap \in Capitals, tna \in Rates :
          NewCredit(q[1], n, q[2], e, cap, tna)
    \/ \E c \in 1..Len(credits), i \in Indexes : NewInstallment(c, i)
    \/ \E d \in BalanceDates : Balance(d)
    \/ \E t \in CollectionTypes, c \in 1..Len(credits), a \in Amounts, d \in PayDates, s \in BOOLEAN :
          Collect(t, c, a, d, s)
    \/ \E doc \in Cuils, t \in PayerTags, a \in PayerAmounts, d \in PayDates, s \in BOOLEAN :
          CollectForPayer(doc, t, a, d, s)
    \/ TakeResult

Spec == Init /\ [][Next]_vars

(***************************************************************************)
(* The engine with one German credit granted, collected at credit level    *)
(* with persistence on three dates (specification SpecDated).               *)
(***************************************************************************)
Seeded == CreditInit(<<>>, <<>>, FirstDue, 1000000, 1000000, "ALEMAN", 201, "MI", 2, 10, Enc(0, 5))
DatedPayDates == PayDates \cup {Enc(3, 15)}
DatedAmounts == {550000, 600000, 1100000}

InitDated ==
    /\ credits = Seeded.credits
    /\ installments = Seeded.installments
    /\ collections = <<>>
    /\ res = Idle
    /\ proc = <<>>

CollectDated(collection_type, credit_id, amount, date) ==
    /\ res = Idle
    /\ \E o \in {collection(collection_type, credits, installments, collections, credit_id, amount, date, TRUE)} :
           /\ Len(o.credits) <= 1 + MaxPenalties
           /\ Len(o.collections) <= MaxDatedColl
           /\ Commit(o)
           /\ res' = [op |-> "collect", err |-> o.err, rows |-> o.rows,
                      collection_type |-> collection_type, credit_id |-> credit_id,
                      amount |-> amount, date |-> date, save |-> TRUE]
    /\ UNCHANGED proc

\* document() with save=False for the payer of the seeded credit: the rows
\* are returned and nothing is stored
CollectForPayerDated(doc, collection_type, amount, date) ==
    /\ res = Idle
    /\ \E o \in {document(credits, installments, collections, doc, collection_type, amount, date,
                          FALSE, kept) : kept \in BOOLEAN} :
           res' = [op |-> "collectForPayer", err |-> o.err, rows |-> o.rows,
                   collection_type |-> collection_type, doc |-> doc,
                   amount |-> amount, date |-> date, save |-> FALSE]
    /\ UNCHANGED <<tables, proc>>

NextDated ==
    \/ \E t \in CollectionTypes, a \in DatedAmounts, d \in DatedPayDates : CollectDated(t, 1, a, d)
    \/ \E t \in CollectionTypes, a \in DatedAmounts, d \in DatedPayDates :
          CollectForPayerDated(201, t, a, d)
    \/ \E d \in DatedPayDates : Balance(d)
    \/ TakeResult

SpecDated == InitDated /\ [][NextDated]_vars

(***************************************************************************)
(* Credits of every method, term, capital and rate (specification          *)
(* SpecSchedule): Credit.__init__ stores the credit and generates its      *)
(* installments 1..Term.                                                   *)
(***************************************************************************)
\* method, term, capital, rate; the French requests keep pmt within the
\* integers of the checker
ScheduleRequests ==
    {<<"ALEMAN", n, c, r>> : n \in 1..MaxTerm, c \in {1000000, 750000}, r \in {0, 7, 10}}
    \cup {<<"PENALTY", n, c, 0>> : n \in 1..MaxTerm, c \in {1000000, 58678}}
    \cup {<<"FRANCES", 1, 1000000, 10>>, <<"FRANCES", 2, 1000000, 10>>,
           <<"FRANCES", 2, 750000, 7>>, <<"FRANCES", 3, 12000, 10>>,
           <<"FRANCES", 3, 30000, 5>>, <<"FRANCES", 4, 900, 2>>,
           <<"FRANCES", 3, 1000000, 0>>, <<"FRANCES", 4, 750000, 0>>}

NextSchedule ==
    \/ \E q \in ScheduleRequests : NewCredit(q[1], q[2], 201, Enc(0, 5), q[3], q[4])
    \/ TakeResult

SpecSchedule == Init /\ [][NextSchedule]_vars

(***************************************************************************)
(* A payer with two credits (specification SpecPayer): the seeded credit,  *)
(* which receives dated collections, and a second credit whose schedule    *)
(* starts one month earlier; payer-level collections are made without      *)
(* persistence.                                                            *)
(***************************************************************************)
SeededPayer ==
    CreditInit(Seeded.credits, Seeded.installments, Enc(0, 28), 1000000, 1000000,
               "ALEMAN", 201, "MI", 2, 10, Enc(0, 5))
PayerDatedAmounts == {300000, 550000}

InitPayer ==
    /\ credits = SeededPayer.credits
    /\ installments = SeededPayer.installments
    /\ collections = <<>>
    /\ res = Idle
    /\ proc = <<>>

NextPayer ==
    \/ \E a \in DatedAmounts, d \in DatedPayDates : CollectDated("COMUN", 1, a, d)
    \/ \E t \in CollectionTypes, d \in DatedPayDates : CollectDated(t, 1, 0, d)
    \/ \E t \in CollectionTypes, a \in PayerDatedAmounts, d \in DatedPayDates :
          CollectForPayerDated(201, t, a, d)
    \/ TakeResult

SpecPayer == InitPayer /\ [][NextPayer]_vars

(***************************************************************************)
(* Two callers, each running one persisted credit-level collect step by    *)
(* step: the balance is read and the rows are prepared, then _save writes  *)
(* them, then round_balance reads the balance again and writes the         *)
(* rounding rows (specification SpecConc).                                  *)
(***************************************************************************)
Procs == 1..2

InitConc ==
    /\ credits = Seeded.credits
    /\ installments = Seeded.installments
    /\ collections = <<>>
    /\ res = Idle
    /\ proc = [p \in Procs |-> [pc |-> "start"]]

\* credit() up to _save: balance(date), split, a penalty credit if one is
\* due, the formatted rows; seen is the size of the collections table read
CollSnapshot(p, collection_type, credit_id, amount, date) ==
    /\ proc[p].pc = "start"
    /\ \E c \in {prepared(collection_type, credits, installments, collections, credit_id, amount, date, TRUE)} :
           /\ credits' = c.credits
           /\ installments' = c.installments
           /\ proc' = [proc EXCEPT ![p] =
                         [pc |-> IF c.err THEN "failed" ELSE "prepared",
                          collection_type |-> collection_type, credit_id |-> credit_id,
                          amount |-> amount, date |-> date,
                          df |-> c.rows, seen |-> Len(collections)]]
    /\ UNCHANGED <<collections, res>>

\* _save, lines 236-244: the rows prepared from the snapshot are written
CollWrite(p) ==
    /\ proc[p].pc = "prepared"
    /\ collections' = write_table(collections, proc[p].df)
    /\ proc' = [proc EXCEPT ![p].pc = "written"]
    /\ UNCHANGED <<credits, installments, res>>

\* _save, line 247: round_balance(date)
CollRound(p) ==
    /\ proc[p].pc = "written"
    /\ collections' = round_balance(credits, installments, collections, proc[p].date)
    /\ proc' = [proc EXCEPT ![p].pc = "rounded"]
    /\ UNCHANGED <<credits, installments, res>>

NextConc ==
    \/ \E p \in Procs, t \in CollectionTypes, a \in Amounts, d \in PayDates :
          CollSnapshot(p, t, 1, a, d)
    \/ \E p \in Procs : CollWrite(p)
    \/ \E p \in Procs : CollRound(p)

SpecConc == InitConc /\ [][NextConc]_vars

(***************************************************************************)
(* Two callers generating installments of one credit step by step: the     *)
(* installments table is read, the pair is looked up in what was read, the *)
(* row is appended (specification SpecGen).                                 *)
(***************************************************************************)
InitGen ==
    /\ credits = write_table(<<>>, <<CreditRow(FirstDue, 1000000, 1000000, "ALEMAN", 201, "MI", 2, 10, Enc(0, 5))>>)
    /\ installments = <<>>
    /\ collections = <<>>
    /\ res = Idle
    /\ proc = [p \in Procs |-> [pc |-> "start"]]

\* installments/main.py line 72: df = read_table("installments")
GenRead(p, Credit_ID, i) ==
    /\ proc[p].pc = "start"
    /\ Len(installments) < MaxGenRows
    /\ proc' = [proc EXCEPT ![p] = [pc |-> "read", Credit_ID |-> Credit_ID, i |-> i,
                                    df |-> installments]]
    /\ UNCHANGED <<tables, res>>

\* lines 73-87: the pair is found in the frame read, and its ID (or the
\* error for several rows) is the result; or it is not, and the row is to be
\* written
GenCheck(p) ==
    /\ proc[p].pc = "read"
    /\ IF InstallmentExists(proc[p].df, proc[p].Credit_ID, proc[p].i)
       THEN \E made \in {InstallmentInit(proc[p].df, credits, proc[p].Credit_ID, proc[p].i)} :
               proc' = [proc EXCEPT ![p] = [pc |-> "done", Credit_ID |-> proc[p].Credit_ID,
                                            i |-> proc[p].i, err |-> made.err, ID |-> made.ID]]
       ELSE proc' = [proc EXCEPT ![p].pc = "append"]
    /\ UNCHANGED <<tables, res>>

\* lines 89-92: write_table, read_table, ID = the largest index
GenAppend(p) ==
    /\ proc[p].pc = "append"
    /\ installments' = write_table(installments, <<InstallmentRow(credits, proc[p].Credit_ID, proc[p].i)>>)
    /\ proc' = [proc EXCEPT ![p] = [pc |-> "done", Credit_ID |-> proc[p].Credit_ID,
                                    i |-> proc[p].i, err |-> FALSE,
                                    ID |-> Len(installments')]]
    /\ UNCHANGED <<credits, collections, res>>

\* the caller has the instance and may call again
GenReturn(p) ==
    /\ proc[p].pc = "done"
    /\ proc' = [proc EXCEPT ![p] = [pc |-> "start"]]
    /\ UNCHANGED <<tables, res>>

NextGen ==
    \/ \E p \in Procs, i \in Indexes : GenRead(p, 1, i)
    \/ \E p \in Procs : GenCheck(p)
    \/ \E p \in Procs : GenAppend(p)
    \/ \E p \in Procs : GenReturn(p)

SpecGen == InitGen /\ [][NextGen]_vars

(***************************************************************************)
(* split() and first_inst() on their own (specification SpecWaterfall):     *)
(* a scope of balance rows and an amount are drawn, split() is applied,    *)
(* then first_inst() on the rows split() left, with the surplus of the     *)
(* split or with another one.                                              *)
(***************************************************************************)
\* outstanding Capital, Interest, IVA of a balance row: an untouched
\* installment, one the advance adjustment left with its capital, a settled
\* one, and one collected twice in part
WaterMoney == {<<500000, 82645, 17355>>, <<500000, 0, 0>>, <<0, 0, 0>>, <<0, -41322, -8678>>}
WaterDues == {Enc(1, 28), Enc(2, 28)}
WaterAmounts == {0, 300000, 550000, 600000, 1150000}
WaterSurplus == {0, 250000, 550000}

WaterRow(id, due, m) ==
    [ID |-> id, Credit_ID |-> 1, Inst_Num |-> id, Due_Date |-> due,
     Capital |-> m[1], Interest |-> m[2], IVA |-> m[3], Total |-> m[1] + m[2] + m[3]]

\* the balance rows of up to MaxScope installments, in the order of their IDs
WaterScopes ==
    UNION {{Rows([n \in 1..k |-> WaterRow(n, due[n], money[n])]) :
               due \in [1..k -> WaterDues], money \in [1..k -> WaterMoney]} : k \in 0..MaxScope}

InitWater ==
    /\ credits = <<>>
    /\ installments = <<>>
    /\ collections = <<>>
    /\ proc = <<>>
    /\ \E df \in WaterScopes, amount \in WaterAmounts :
          res = [op |-> "scope", df |-> df, amount |-> amount]

WaterSplit(type_id) ==
    /\ res.op = "scope"
    /\ \E sp \in {split(res.df, res.amount, type_id)} :
          res' = [op |-> "split", df |-> res.df, amount |-> res.amount, type_id |-> type_id,
                  df_up |-> sp.df_up, df_down |-> sp.df_down, surplus |-> sp.surplus]
    /\ UNCHANGED <<tables, proc>>

\* first_inst() with the surplus of the split (own) or with another one
WaterFirstInst(own, other) ==
    /\ res.op = "split"
    /\ \E surplus \in {IF own THEN res.surplus ELSE other} :
          res' = [op |-> "first_inst", df |-> res.df, df_down |-> res.df_down,
                  type_id |-> res.type_id, surplus |-> surplus,
                  own |-> (surplus = res.surplus),
                  rows |-> first_inst(res.df_down, surplus, res.type_id)]
    /\ UNCHANGED <<tables, proc>>

NextWater ==
    \/ \E type_id \in {common_id, advance_id} : WaterSplit(type_id)
    \/ \E own \in BOOLEAN, other \in WaterSurplus : WaterFirstInst(own, other)

SpecWaterfall == InitWater /\ [][NextWater]_vars

(***************************************************************************)
(* Properties of the sequential engine (specification Spec).               *)
(***************************************************************************)
\* sum of Total over the stored collections of installment k
StoredTotal(k) == CollectedSum(collections, k, "Total")

\* a step that is the call op, whose result is in res afterwards
Called(op) == res = Idle /\ res'.op = op

\* C1: after any sequence of collect operations, for every installment the
\* Total of the stored collections referencing it sums to at most the
\* installment's scheduled Total
C1_NoOverCollection ==
    \A k \in 1..Len(installments) : StoredTotal(k) <= installments[k].Total

\* the pair (Credit_ID, i) has at most one stored row
OneRowPerPair ==
    \A c \in 1..Len(credits), i \in Indexes :
        Cardinality(ExistingIDs(installments, c, i)) <= 1

\* C4: a generation call for a pair that is already stored appends nothing,
\* leaves the stored rows as they are and returns the ID of the stored row,
\* and the pair keeps exactly one row
C4_SecondGenerationReturnsStoredRow ==
    [][Called("Installment") /\ ExistingIDs(installments, res'.Credit_ID, res'.i) # {}
         => /\ installments' = installments
            /\ ~res'.err
            /\ ExistingIDs(installments', res'.Credit_ID, res'.i) = {res'.ID}]_vars

\* a second generation call has returned a row that it did not append
C4_Witness ==
    /\ res.op = "Installment"
    /\ ~res.err
    /\ res.ID < Len(installments)
    /\ ExistingIDs(installments, res.Credit_ID, res.i) = {res.ID}

RECURSIVE SetSum(_, _)
\* the sum of column col over the set S of stored collections
SetSum(S, col) ==
    IF S = {} THEN 0
    ELSE With(CHOOSE n \in S : TRUE, LAMBDA n : collections[n][col] + SetSum(S \ {n}, col))

\* scheduled value minus what the stored collections dated <= D collected
Owed(k, col, D) ==
    installments[k][col]
    - SetSum({n \in 1..Len(collections) :
                 collections[n].Installment_ID = k /\ collections[n].Date <= D}, col)

\* the installments of the credits disbursed on or before D
Disbursed(D) ==
    {k \in 1..Len(installments) : credits[installments[k].Credit_ID].Disbursement_Date <= D}

RECURSIVE Reverse(_)
Reverse(s) == IF s = <<>> THEN <<>> ELSE Reverse(Tail(s)) \o <<Head(s)>>

\* b is the balance at D as the specification defines it
IsBalanceAt(b, D) ==
    /\ Len(b) = Cardinality(Disbursed(D))
    /\ {b[n].ID : n \in 1..Len(b)} = Disbursed(D)
    /\ \A n \in 1..Len(b), col \in MONEY_COLS : b[n][col] = Owed(b[n].ID, col, D)

\* C5: balance(D) has one row per stored installment of a credit disbursed
\* on or before D and no other row, every money field is the scheduled value
\* minus the sum over the stored collections dated <= D of that installment,
\* and the result is the same when the collections are stored in another order
C5_BalanceIsScheduledMinusCollected ==
    /\ \A D \in BalanceDates :
          /\ IsBalanceAt(balance(credits, installments, collections, D), D)
          /\ balance(credits, installments, Reverse(collections), D)
               = balance(credits, installments, collections, D)
    /\ res.op = "balance" => IsBalanceAt(res.rows, res.date)

\* balance(D) has returned a row reduced by some collections while other
\* collections of the same installment are dated after D
C5_Witness ==
    /\ res.op = "balance"
    /\ \E n \in 1..Len(res.rows), m \in 1..Len(collections) :
          /\ res.rows[n].Total < installments[res.rows[n].ID].Total
          /\ collections[m].Installment_ID = res.rows[n].ID
          /\ collections[m].Date > res.date

AllDates == BalanceDates \cup DatedPayDates

\* C6: for D1 <= D2 and every installment in both results, each money field
\* of balance(D2) is at most the same field of balance(D1)
C6_BalanceMonotoneInDate ==
    \A D1 \in AllDates, D2 \in AllDates :
        D1 <= D2 =>
            \A k \in Disbursed(D1) \cap Disbursed(D2), col \in MONEY_COLS :
                Owed(k, col, D2) <= Owed(k, col, D1)

\* what a credit-level collect splits: the scope it selects from the balance
\* at its date, split at its amount
ScopeOf(collection_type, credit_id, date) ==
    IF collection_type = "COMUN"
    THEN SelectSeq(balance(credits, installments, collections, date),
                   LAMBDA r : r.Credit_ID = credit_id /\ r.Total > 0)
    ELSE ZeroFuture(SelectSeq(balance(credits, installments, collections, date),
                              LAMBDA r : r.Credit_ID = credit_id), date, TRUE)

SplitOf(collection_type, credit_id, amount, date) ==
    split(ScopeOf(collection_type, credit_id, date), amount,
          IF collection_type = "COMUN" THEN common_id ELSE advance_id)

\* the collect ends with a surplus and no remaining installment in scope
SurplusNothingLeft(sp) == sp.surplus > 0 /\ sp.df_down = <<>>

\* the step created one Penalty credit of one installment for the client and
\* organism of credit_id, of Capital 0 and Total amount, and stored one
\* collection row of that Total against it
PenaltyCreated(credit_id, amount) ==
    /\ Len(credits') = Len(credits) + 1
    /\ Len(installments') = Len(installments) + 1
    /\ df_crtp[credits'[Len(credits')].Credit_Type_ID] = "PENALTY"
    /\ credits'[Len(credits')].Client_ID = credits[credit_id].Client_ID
    /\ credits'[Len(credits')].Organism_ID = credits[credit_id].Organism_ID
    /\ installments'[Len(installments')].Credit_ID = Len(credits')
    /\ installments'[Len(installments')].Capital = 0
    /\ installments'[Len(installments')].Total = amount
    /\ \E n \in (Len(collections) + 1)..Len(collections') :
          /\ collections'[n].Installment_ID = Len(installments')
          /\ collections'[n].Total = amount
          /\ \A m \in (Len(collections) + 1)..Len(collections') :
                collections'[m].Installment_ID = Len(installments') => m = n
    /\ CollectedSum(collections', Len(installments'), "Total") = amount

\* C7: a persisted credit-level collect that ends with a surplus and nothing
\* remaining in scope creates exactly one Penalty credit with one installment,
\* of the same client and organism, with Capital 0 and Total equal to the
\* surplus, and stores one collection row of that Total against it
C7_SurplusBecomesPenalty ==
    [][Called("collect") /\ res'.save
         => LET sp == SplitOf(res'.collection_type, res'.credit_id, res'.amount, res'.date)
            IN  SurplusNothingLeft(sp)
                  => ~res'.err /\ PenaltyCreated(res'.credit_id, sp.surplus)]_vars

\* C8: a credit-level collect without persistence that ends with a surplus
\* and nothing remaining in scope raises no error, returns the fully covered
\* rows tagged with the collection type, and stores nothing
C8_SurplusWithoutPersistence ==
    [][Called("collect") /\ ~res'.save
         => LET sp == SplitOf(res'.collection_type, res'.credit_id, res'.amount, res'.date)
            IN  SurplusNothingLeft(sp)
                  => /\ ~res'.err
                     /\ SelectSeq(res'.rows, LAMBDA r : r.Type_ID # bonus_id)
                          = basic_formatting(sp.df_up, res'.date)
                     /\ tables' = tables]_vars

\* C9: balance(D), and every collect and collectForPayer call without
\* persistence, leave the three tables exactly as they were
C9_ReadOnlyWithoutPersistence ==
    [][\/ Called("balance")
       \/ (Called("collect") \/ Called("collectForPayer")) /\ ~res'.save
         => tables' = tables]_vars

\* a collect without persistence has allocated rows that are not stored
C9_Witness ==
    /\ res.op \in {"collect", "collectForPayer"}
    /\ ~res.save
    /\ ~res.err
    /\ \E n \in 1..Len(res.rows) :
          \A m \in 1..Len(collections) : collections[m] # res.rows[n]

\* table is a prefix of table2
IsPrefix(table, table2) ==
    Len(table) <= Len(table2) /\ SubSeq(table2, 1, Len(table)) = table

\* C10: every installment row and every collection row stored before a step
\* is stored afterwards, at the same place and with the same values
C10_AppendOnly ==
    [][IsPrefix(installments, installments') /\ IsPrefix(collections, collections')]_vars

\* a persisted collect has added rows after rows stored by earlier operations
C10_Witness ==
    /\ res.op \in {"collect", "collectForPayer"}
    /\ res.save
    /\ res.rows # <<>>
    /\ \E n \in 1..Len(collections) : collections[n].Date # res.date
    /\ Len(installments) >= 2

(***************************************************************************)
(* Properties of the stepwise specifications.                              *)
(***************************************************************************)
\* what caller p prepared for installment k
Allocated(p, k) ==
    SumSeq(SelectSeq(proc[p].df, LAMBDA r : r.Installment_ID = k), "Total")

\* what is stored for installment k, the rounding rows aside
StoredAllocations(k) ==
    SumSeq(SelectSeq(collections, LAMBDA r : r.Installment_ID = k /\ r.Type_ID # round_id), "Total")

\* both callers took their snapshot before either wrote, and both have written
BothWroteStale ==
    \A p \in Procs : proc[p].pc \in {"written", "rounded"} /\ proc[p].seen = 0

\* C2: when two collects take their balance snapshot before either persists,
\* no step prevents the second write: once both have written, what is stored
\* for every installment is the sum of what the two prepared from their
\* snapshots, however much the other has stored (witness: more than the
\* installment's scheduled Total)
C2_StaleSnapshotsBothStored ==
    BothWroteStale =>
        \A k \in 1..Len(installments) : StoredAllocations(k) = Allocated(1, k) + Allocated(2, k)

\* both collects allocated to one installment of the credit and it is
\* over-collected
C2_Witness ==
    /\ BothWroteStale
    /\ \E k \in 1..Len(installments) :
          /\ Allocated(1, k) > 0
          /\ Allocated(2, k) > 0
          /\ StoredTotal(k) > installments[k].Total

\* C3: under every interleaving of the read, check and append steps of
\* concurrent generations, once all have finished every generated pair
\* (Credit_ID, i) has exactly one row
C3_GenerationIdempotent ==
    (\A p \in Procs : proc[p].pc \in {"start", "done"}) =>
        \A i \in Indexes :
            (\E p \in Procs : proc[p].pc = "done" /\ proc[p].i = i)
                => Cardinality(ExistingIDs(installments, 1, i)) = 1

(***************************************************************************)
(* Error handling (specification Spec).                                    *)
(***************************************************************************)
\* C11: a payer-level collect with a collection-type tag other than COMUN
\* and ANTICIPADA ends in an error and writes no credit, installment or
\* collection row
C11_UnknownTagNoEffect ==
    [][Called("collectForPayer") /\ res'.collection_type \notin {"COMUN", "ANTICIPADA"}
         => res'.err /\ tables' = tables]_vars

\* a persisted payer-level collect with an unknown tag has failed for a payer
\* who has outstanding installments
C11_Witness ==
    /\ res.op = "collectForPayer"
    /\ res.collection_type \notin {"COMUN", "ANTICIPADA"}
    /\ res.save
    /\ res.err
    /\ \E r \in {get_client_balance_by_document(credits, installments, collections, res.doc, res.date)} :
          \E n \in 1..Len(r) : r[n].Total > 0

\* C12: creating a credit whose amortization method is not FRANCES, ALEMAN
\* or PENALTY ends in an error, and neither a credit row nor an installment
\* row is stored by it
C12_UnknownMethodNoPersistence ==
    [][Called("Credit") /\ res'.Credit_Type \notin {"FRANCES", "ALEMAN", "PENALTY"}
         => res'.err /\ tables' = tables]_vars

\* the creation of a credit of an unknown method has failed after another
\* credit was stored
C12_Witness ==
    /\ res.op = "Credit"
    /\ res.Credit_Type \notin {"FRANCES", "ALEMAN", "PENALTY"}
    /\ res.err
    /\ Len(credits) > 0

\* C13: a generation call that reads more than one stored row for its pair
\* (Credit_ID, i) ends in an error, writes nothing and returns the ID of
\* none of the rows (specification SpecGen)
C13_DuplicateRowsAreFatal ==
    [][\A p \in Procs :
          /\ proc[p].pc = "read"
          /\ proc'[p].pc # "read"
          /\ Cardinality(ExistingIDs(proc[p].df, proc[p].Credit_ID, proc[p].i)) > 1
          => /\ proc'[p].pc = "done"
             /\ proc'[p].err
             /\ proc'[p].ID \notin ExistingIDs(proc[p].df, proc[p].Credit_ID, proc[p].i)
             /\ tables' = tables]_vars

\* a generation call has failed on a pair that is stored twice
C13_Witness ==
    \E p \in Procs :
        /\ proc[p].pc = "done"
        /\ proc[p].err
        /\ Cardinality(ExistingIDs(installments, proc[p].Credit_ID, proc[p].i)) > 1

(***************************************************************************)
(* Advance collection (specification SpecDated).                           *)
(***************************************************************************)
\* the balance rows of credit_id at date
BalanceOf(credit_id, date) ==
    SelectSeq(balance(credits, installments, collections, date),
              LAMBDA r : r.Credit_ID = credit_id)

\* row a of the frame that is split is row b of the balance after the
\* advance adjustment at date
IsAdjusted(a, b, date) ==
    /\ a.ID = b.ID
    /\ a.Capital = b.Capital
    /\ IF b.Due_Date >= date
       THEN a.Interest = 0 /\ a.IVA = 0 /\ a.Total = b.Capital
       ELSE a.Interest = b.Interest /\ a.IVA = b.IVA

RowsFor(rows, type_id, k) ==
    SelectSeq(rows, LAMBDA r : r.Type_ID = type_id /\ r.Installment_ID = k)

\* what is outstanding in column col on the balance row b after the Advance
\* rows of the frame rows
AfterAdvance(b, rows, col) == b[col] - SumSeq(RowsFor(rows, advance_id, b.ID), col)

\* the balance row b is owed a Bonus row: it received an Advance row that
\* leaves no Capital and some Interest outstanding
BonusDue(b, rows) ==
    /\ RowsFor(rows, advance_id, b.ID) # <<>>
    /\ AfterAdvance(b, rows, "Capital") = 0
    /\ AfterAdvance(b, rows, "Interest") # 0

\* C15: an Advance collect produces a Bonus row for exactly the installments
\* that received an Advance row leaving Capital 0 and Interest not 0
\* outstanding; the Bonus row carries the payment's date and its Total is the
\* Interest plus IVA outstanding after the Advance row
C15_BonusForgivesWhatIsLeft ==
    [][Called("collect") /\ res'.collection_type = "ANTICIPADA" /\ ~res'.err
         => \A n \in 1..Len(BalanceOf(res'.credit_id, res'.date)) :
              \E b \in {BalanceOf(res'.credit_id, res'.date)[n]} :
                 /\ Len(RowsFor(res'.rows, bonus_id, b.ID))
                      = (IF BonusDue(b, res'.rows) THEN 1 ELSE 0)
                 /\ \A m \in 1..Len(RowsFor(res'.rows, bonus_id, b.ID)) :
                       /\ RowsFor(res'.rows, bonus_id, b.ID)[m].Date = res'.date
                       /\ RowsFor(res'.rows, bonus_id, b.ID)[m].Total
                            = AfterAdvance(b, res'.rows, "Interest")
                              + AfterAdvance(b, res'.rows, "IVA")]_vars

\* the allocation document() computes for a payer in the current tables
PayerAllocation(doc, collection_type, amount, date, kept) ==
    Allocation(PayerFrame(get_client_balance_by_document(credits, installments, collections,
                                                         doc, date),
                          collection_type, date, kept),
               amount, IF collection_type = "COMUN" THEN common_id ELSE advance_id)

\* what the payment leaves after the per-credit sums of the allocation
PayerSurplus(doc, collection_type, amount, date, kept) ==
    amount - SumSeq(PayerAllocation(doc, collection_type, amount, date, kept), "Total")

\* the per-credit calls document() makes in the current tables
PayerCalls(doc, collection_type, amount, date, kept) ==
    Calls(PayerAllocation(doc, collection_type, amount, date, kept),
          GroupIDs(PayerAllocation(doc, collection_type, amount, date, kept)),
          PayerSurplus(doc, collection_type, amount, date, kept))

LargestOf(S) == CHOOSE x \in S : \A y \in S : y <= x

CallsReached(collection_type, calls, date) ==
    {n \in 1..Len(calls) :
        \A m \in 1..(n - 1) :
            ~collection(collection_type, credits, installments, collections,
                        calls[m][1], calls[m][2], date, FALSE).err}

\* C18: every split made by a collection returns a surplus >= 0: the split
\* of a credit-level collection, the split of the payer's frame, and the
\* split of every per-credit call the payer-level collection makes.
C18_SurplusNeverNegative ==
    [][/\ Called("collect")
            => SplitOf(res'.collection_type, res'.credit_id, res'.amount, res'.date).surplus >= 0
       /\ Called("collectForPayer") /\ ~res'.save /\ res'.collection_type \in CollectionTypes
            => \A kept \in BOOLEAN :
               /\ split(PayerFrame(get_client_balance_by_document(credits, installments,
                                        collections, res'.doc, res'.date),
                                   res'.collection_type, res'.date, kept),
                        res'.amount, common_id).surplus >= 0
               /\ \E calls \in {PayerCalls(res'.doc, res'.collection_type, res'.amount, res'.date,
                                           kept)} :
                     \A n \in CallsReached(res'.collection_type, calls, res'.date) :
                        SplitOf(res'.collection_type, calls[n][1], calls[n][2], res'.date).surplus
                          >= 0]_vars

(***************************************************************************)
(* Properties of split() and first_inst() (specification SpecWaterfall).   *)
(***************************************************************************)
NonNegative(df) == \A n \in 1..Len(df) : df[n].Total >= 0

\* the rows of a frame that are the installment of row r
SameInstallment(df, r) == SelectSeq(df, LAMBDA x : x.ID = r.ID)

SameMoney(a, b) ==
    \A col \in MONEY_COLS : a[col] = b[col]

\* C17: for a scope with non-negative Totals and an amount >= 0, the Totals
\* of the fully covered rows plus the surplus equal the amount; no fully
\* covered row is due after a row that is not fully covered; every row of
\* the scope is in exactly one of the two returned sets, its Capital,
\* Interest, IVA and Total unchanged.
C17_SplitPartitionsThePayment ==
    res.op = "split" /\ NonNegative(res.df) /\ res.amount >= 0
      => /\ SumSeq(res.df_up, "Total") + res.surplus = res.amount
         /\ \A u \in 1..Len(res.df_up), d \in 1..Len(res.df_down) :
               res.df_up[u].Due_Date <= res.df_down[d].Due_Date
         /\ Len(res.df_up) + Len(res.df_down) = Len(res.df)
         /\ \A n \in 1..Len(res.df) :
               \E both \in {SameInstallment(res.df_up, res.df[n])
                              \o SameInstallment(res.df_down, res.df[n])} :
                  Len(both) = 1 /\ SameMoney(both[1], res.df[n])

\* a scope given out of due-date order, of which the split covers a part and
\* leaves a surplus
C17_Witness ==
    /\ res.op = "split"
    /\ NonNegative(res.df)
    /\ Len(res.df) = 3
    /\ res.df[1].Due_Date > res.df[2].Due_Date
    /\ res.df_up # <<>>
    /\ res.df_down # <<>>
    /\ res.surplus > 0

\* the earliest due date of a frame
EarliestDue(df) ==
    CHOOSE d \in {df[n].Due_Date : n \in 1..Len(df)} :
        \A n \in 1..Len(df) : d <= df[n].Due_Date

\* C19: given pending rows and a surplus # 0, first_inst returns exactly one
\* row, for an installment with the earliest due date of the pending rows,
\* with Total equal to the surplus and Capital not above the installment's
\* outstanding Capital; given no pending row or a surplus of 0 it returns
\* no row.
C19_OneRowForTheEarliestPending ==
    res.op = "first_inst"
      => IF res.df_down # <<>> /\ res.surplus # 0
         THEN /\ Len(res.rows) = 1
              /\ \E target \in {SameInstallment(res.df_down, res.rows[1])} :
                    /\ Len(target) = 1
                    /\ target[1].Due_Date = EarliestDue(res.df_down)
                    /\ res.rows[1].Capital <= target[1].Capital
              /\ res.rows[1].Total = res.surplus
         ELSE res.rows = <<>>

\* two pending rows with different due dates and a surplus below the
\* Capital of the earlier one
C19_Witness ==
    /\ res.op = "first_inst"
    /\ Len(res.df_down) = 2
    /\ res.df_down[1].Due_Date < res.df_down[2].Due_Date
    /\ res.surplus > 0
    /\ Len(res.rows) = 1
    /\ res.rows[1].Capital < res.df_down[1].Capital

(***************************************************************************)
(* The partial row of a collection (specification SpecPayer).              *)
(***************************************************************************)
\* the row first_inst returns for the target installment follows the rule
FollowsRule(target, surplus, row) ==
    IF surplus < target.Capital
    THEN row.Capital = surplus /\ row.Interest = 0 /\ row.IVA = 0
    ELSE /\ row.Capital = target.Capital
         /\ row.Interest = Div121(surplus - target.Capital)
         /\ row.IVA = (surplus - target.Capital) - row.Interest

StaysWithin(target, row) ==
    row.Interest <= target.Interest /\ row.IVA <= target.IVA

\* first_inst applied to what a split returned
PartialOf(sp) == first_inst(sp.df_down, sp.surplus, common_id)

PartialAsClaimed(sp) ==
    \A n \in 1..Len(PartialOf(sp)) :
        /\ FollowsRule(sp.df_down[1], sp.surplus, PartialOf(sp)[n])
        /\ StaysWithin(sp.df_down[1], PartialOf(sp)[n])

\* the split document() makes of the payer's frame
PayerSplit(doc, collection_type, amount, date, kept) ==
    split(PayerFrame(get_client_balance_by_document(credits, installments, collections,
                                                    doc, date),
                     collection_type, date, kept),
          amount, common_id)

\* C20: the partial row has Capital = surplus, Interest = 0, IVA = 0 when the
\* surplus is below the target installment's Capital, and otherwise the full
\* Capital, Interest = (surplus - Capital) / 1.21 and IVA = the rest; called
\* with what the split of the same collection returned, its Interest and IVA
\* do not exceed the outstanding Interest and IVA of the installment.
C20_PartialRowWithinOutstanding ==
    [][/\ Called("collect")
            => PartialAsClaimed(SplitOf(res'.collection_type, res'.credit_id,
                                        res'.amount, res'.date))
       /\ Called("collectForPayer") /\ res'.collection_type \in CollectionTypes
            => \A kept \in BOOLEAN :
                  PartialAsClaimed(PayerSplit(res'.doc, res'.collection_type,
                                              res'.amount, res'.date, kept))]_vars

(***************************************************************************)
(* Collections of amount 0 (specification SpecPayer).                      *)
(***************************************************************************)
\* C21: when the amount is 0 or the scope is empty, split covers no row and
\* returns the amount as surplus; a collect of amount 0 returns no row and
\* leaves the collections table as it was.
C21_NothingCoveredByNothing ==
    [][Called("collect")
         => /\ (res'.amount = 0 \/ ScopeOf(res'.collection_type, res'.credit_id, res'.date) = <<>>)
                 => \E sp \in {SplitOf(res'.collection_type, res'.credit_id,
                                        res'.amount, res'.date)} :
                       sp.df_up = <<>> /\ sp.surplus = res'.amount
            /\ res'.amount = 0 => res'.rows = <<>> /\ collections' = collections]_vars

IsDust(total) == 0 < Abs(total) /\ Abs(total) < DustLimit

\* the balance row of installment k at date after the step
BalanceAfter(k, date) ==
    SelectSeq(balance(credits', installments', collections', date), LAMBDA b : b.ID = k)

\* C23: the rounding rows a persisted collect stores are for installments
\* whose outstanding Total was dust (0 < |Total| < 0.1), each brings the
\* balance of its installment to zero in every money field, and afterwards
\* no installment is left with dust at the date: an installment with
\* |Total| >= 0.1 gets no rounding row.
C23_RoundingOnlyClearsDust ==
    [][Called("collect") /\ res'.save /\ ~res'.err
         => /\ \A n \in (Len(collections) + 1)..Len(collections') :
                  collections'[n].Type_ID = round_id
                    => /\ IsDust(collections'[n].Total)
                       /\ \A m \in 1..Len(BalanceAfter(collections'[n].Installment_ID, res'.date)) :
                             \A col \in MONEY_COLS :
                                BalanceAfter(collections'[n].Installment_ID, res'.date)[m][col] = 0
            /\ \A m \in 1..Len(balance(credits', installments', collections', res'.date)) :
                  ~IsDust(balance(credits', installments', collections', res'.date)[m].Total)]_vars

(***************************************************************************)
(* The generated schedules (specification SpecSchedule).                   *)
(***************************************************************************)
\* the stored installments of credit c
ScheduleOf(c) == SelectSeq(installments, LAMBDA r : r.Credit_ID = c)

\* C24: the schedule of a French or German credit has installments 1..Term
\* whose Capital adds up to the credit's Capital, to within one millionth
\* per installment (each stored amount is rounded to 6 decimals); every
\* installment has Total = Capital + Interest + IVA; an installment of a
\* Penalty credit has Capital 0 and Total equal to the penalty amount.
C24_ScheduleAddsUp ==
    /\ \A c \in 1..Len(credits) :
          /\ Len(ScheduleOf(c)) = credits[c].Term
          /\ df_crtp[credits[c].Credit_Type_ID] \in {"FRANCES", "ALEMAN"}
               => Abs(SumSeq(ScheduleOf(c), "Capital") - credits[c].Capital) <= credits[c].Term
          /\ df_crtp[credits[c].Credit_Type_ID] = "PENALTY"
               => \A n \in 1..Len(ScheduleOf(c)) :
                     ScheduleOf(c)[n].Capital = 0 /\ ScheduleOf(c)[n].Total = credits[c].Capital
    /\ \A k \in 1..Len(installments) :
          installments[k].Total
            = installments[k].Capital + installments[k].Interest + installments[k].IVA

\* a French credit of three installments, a German one of four and a
\* Penalty credit are stored with their schedules
C24_Witness ==
    /\ \E c \in 1..Len(credits) :
          df_crtp[credits[c].Credit_Type_ID] = "FRANCES" /\ Len(ScheduleOf(c)) = 3
    /\ \E c \in 1..Len(credits) :
          df_crtp[credits[c].Credit_Type_ID] = "ALEMAN" /\ Len(ScheduleOf(c)) = 4

(***************************************************************************)
(* Conservation of the payment (specification Spec).                       *)
(***************************************************************************)
\* the rows of a result that are not bonus rows
Paid(rows) == SelectSeq(rows, LAMBDA r : r.Type_ID # bonus_id)

\* C25: a credit-level collect of an amount > 0 that returns, with an
\* installment left in scope or with persistence enabled, returns rows other
\* than bonus rows whose Totals add up to the amount.
C25_PaymentConserved ==
    [][Called("collect") /\ ~res'.err /\ res'.amount > 0
          /\ (res'.save \/ SplitOf(res'.collection_type, res'.credit_id,
                                    res'.amount, res'.date).df_down # <<>>)
         => SumSeq(Paid(res'.rows), "Total") = res'.amount]_vars

(***************************************************************************)
(* Two credits collected independently (specification SpecFrame): dated    *)
(* and backdated persisted collects on credit 1, persisted collects on     *)
(* credit 2; every _save ends with round_balance(date) over all credits.   *)
(***************************************************************************)
FrameAmounts == {250000, 300000}
FrameOtherAmounts == {550000}

NextFrame ==
    \/ \E t \in CollectionTypes, a \in FrameAmounts, d \in PayDates : CollectDated(t, 1, a, d)
    \/ \E t \in CollectionTypes, a \in FrameOtherAmounts, d \in DatedPayDates : CollectDated(t, 2, a, d)
    \/ TakeResult

SpecFrame == InitPayer /\ [][NextFrame]_vars

\* the credit of the installment a collection row refers to
CreditOfRow(insts, r) == insts[r.Installment_ID].Credit_ID

\* C26: a persisted credit-level collect on a credit keeps the stored
\* collections and appends rows only for installments of that credit or of
\* the penalty credit it creates.
C26_OnlyOwnInstallmentsCollected ==
    [][Called("collect") /\ res'.save
         => /\ Len(collections') >= Len(collections)
            /\ SubSeq(collections', 1, Len(collections)) = collections
            /\ \A k \in (Len(collections) + 1)..Len(collections') :
                   CreditOfRow(installments', collections'[k])
                       \in {res'.credit_id} \cup ((Len(credits) + 1)..Len(credits'))]_vars

(***************************************************************************)
(* Balances under collects whose dates never go back (SpecDated).          *)
(***************************************************************************)
\* the stored collections are dated in non-decreasing order
NonDecreasing(colls) ==
    \A i, j \in 1..Len(colls) : i < j => colls[i].Date <= colls[j].Date

NoNegativeBalance ==
    \A d \in DatedPayDates :
       \A n \in 1..Len(balance(credits, installments, collections, d)) :
          \A col \in {"Capital", "Interest", "IVA", "Total"} :
             balance(credits, installments, collections, d)[n][col] >= 0

\* every bonus row of the result takes at most the IVA left on its
\* installment after the advance rows of the same result
BonusWithinTax(bal, rows) ==
    \A n \in 1..Len(bal) :
       \A m \in 1..Len(RowsFor(rows, bonus_id, bal[n].ID)) :
          RowsFor(rows, bonus_id, bal[n].ID)[m].IVA <= AfterAdvance(bal[n], rows, "IVA")

\* C27: with persisted collects stored in non-decreasing date order no money
\* field of any installment's balance is negative, and a bonus row never
\* collects more IVA than is outstanding on its installment after the
\* advance row.
C27_BalancesStayNonNegative ==
    /\ [](NonDecreasing(collections) => NoNegativeBalance)
    /\ [][Called("collect") /\ res'.save /\ ~res'.err /\ NonDecreasing(collections')
            => BonusWithinTax(BalanceOf(res'.credit_id, res'.date), res'.rows)]_vars

(***************************************************************************)
(* Payer-level and credit-level allocation of an advance (SpecDated).      *)
(***************************************************************************)
AdvanceTotal(rows, k) == SumSeq(RowsFor(rows, advance_id, k), "Total")

AllocatedTotal(alloc, k) == SumSeq(SelectSeq(alloc, LAMBDA x : x.ID = k), "Total")

\* C28: in a payer-level advance collect that leaves no surplus after the
\* per-credit sums, the advance rows returned by the per-credit calls give
\* every installment the Total that the document-level split and partial
\* allocation gave it.
C28_DispatchFollowsTheAllocation ==
    [][Called("collectForPayer") /\ res'.collection_type = "ANTICIPADA" /\ ~res'.err
          /\ (\A kept \in BOOLEAN :
                 PayerSurplus(res'.doc, "ANTICIPADA", res'.amount, res'.date, kept) = 0)
         => \E kept \in BOOLEAN :
               \A k \in 1..Len(installments) :
                  AdvanceTotal(res'.rows, k)
                    = AllocatedTotal(PayerAllocation(res'.doc, "ANTICIPADA", res'.amount,
                                                     res'.date, kept), k)]_vars

(***************************************************************************)
(* Payer-level collect without persistence (SpecDated).                    *)
(***************************************************************************)
\* the Total of all returned rows that refer to installment k
ReturnedTotal(rows, k) == SumSeq(SelectSeq(rows, LAMBDA r : r.Installment_ID = k), "Total")

\* C29: a payer-level collect with persistence disabled returns, for every
\* installment, rows whose Totals add up to at most the Total outstanding on
\* it at the payment date.
C29_ReturnedWithinOutstanding ==
    [][Called("collectForPayer") /\ ~res'.save /\ ~res'.err
          /\ res'.collection_type \in CollectionTypes
         => \A n \in 1..Len(balance(credits, installments, collections, res'.date)) :
               \E b \in {balance(credits, installments, collections, res'.date)[n]} :
                  ReturnedTotal(res'.rows, b.ID) <= b.Total]_vars

(***************************************************************************)
(* The two Installment classes of the repository (SpecInstall).  The       *)
(* module file installments.py and the package installments/main.py build  *)
(* the same row; they differ in the test for a stored pair.  The name      *)
(* Installment imported by credits.py is bound to one of them, so both     *)
(* constructors are actions.  The tables hold credit 1 with its schedule   *)
(* and the row of credit 2, as they do when Credit.__init__ reaches the    *)
(* loop that generates the installments of a second credit.                *)
(***************************************************************************)
\* installments.py line 90: the credit has some row and some row, of any
\* credit, has the index
ModuleInstallmentExists(insts, Credit_ID, i) ==
    /\ \E k \in 1..Len(insts) : insts[k].Credit_ID = Credit_ID
    /\ \E k \in 1..Len(insts) : insts[k].Inst_Num = i

\* installments.py lines 89-111
ModuleInstallmentInit(insts, creds, Credit_ID, i) ==
    IF ModuleInstallmentExists(insts, Credit_ID, i)
    THEN IF Cardinality(ExistingIDs(insts, Credit_ID, i)) # 1
         THEN [err |-> TRUE, installments |-> insts, ID |-> 0]
         ELSE [err |-> FALSE, installments |-> insts,
               ID |-> CHOOSE k \in ExistingIDs(insts, Credit_ID, i) : TRUE]
    ELSE [err |-> FALSE, ID |-> Len(insts) + 1,
          installments |-> write_table(insts, <<InstallmentRow(creds, Credit_ID, i)>>)]

NewModuleInstallment(Credit_ID, i) ==
    /\ res = Idle
    /\ \E made \in {ModuleInstallmentInit(installments, credits, Credit_ID, i)} :
           /\ installments' = made.installments
           /\ res' = [op |-> "Installment", err |-> made.err, ID |-> made.ID,
                      Credit_ID |-> Credit_ID, i |-> i]
    /\ UNCHANGED <<credits, collections, proc>>

InitInstall ==
    /\ credits = write_table(Seeded.credits,
                             <<CreditRow(FirstDue, 1000000, 1000000, "ALEMAN", 201, "MI",
                                         MaxTerm, 10, Enc(0, 5))>>)
    /\ installments = Seeded.installments
    /\ collections = <<>>
    /\ res = Idle
    /\ proc = <<>>

NextInstall ==
    \/ \E c \in 1..2, i \in 1..MaxTerm : NewInstallment(c, i)
    \/ \E c \in 1..2, i \in 1..MaxTerm : NewModuleInstallment(c, i)
    \/ TakeResult

SpecInstall == InitInstall /\ [][NextInstall]_vars

\* C30: generating an installment for a (Credit_ID, Inst_Num) pair that is
\* not stored succeeds and appends exactly one row, the row of that pair,
\* whatever rows of other credits are stored.
C30_NewPairIsAppended ==
    [][Called("Installment") /\ ExistingIDs(installments, res'.Credit_ID, res'.i) = {}
         => /\ ~res'.err
            /\ Len(installments') = Len(installments) + 1
            /\ SubSeq(installments', 1, Len(installments)) = installments
            /\ ExistingIDs(installments', res'.Credit_ID, res'.i) = {Len(installments')}
            /\ res'.ID = Len(installments')]_vars

====
